---- MODULE Spec2Model ----
(***************************************************************************)
(* The analysis orchestration engine of ThermalWise: the Durable Object    *)
(* ThermalAnalysisAgent (worker/agents/thermal-analysis.ts).               *)
(*                                                                         *)
(* JavaScript runs one task at a time, so every action below is the code   *)
(* between two suspension points: a callable command up to its first       *)
(* await, a timer callback, a tool's continuation after its model call, a  *)
(* stream part handed to the for-await loop.  setState replaces this.state *)
(* synchronously.                                                          *)
(***************************************************************************)
EXTENDS Integers, Sequences, FiniteSets, TLC

\* ------------------------------------------------------------------ bounds
MaxPairs == 6        \* the largest image-pair list handed to initializeAnalysis
MaxRuns == 2         \* startAnalysis invocations that pass the precondition
MaxCmds == 3         \* command invocations in one behaviour
MaxTools == 2        \* tool calls the language model makes in one behaviour
MaxLabel == 1        \* image pairs the language model picks as tool arguments

\* ------------------------------------------------------- program constants
StepCap == 20        \* maxSteps: Math.min(20, ...)
StepExtra == 5       \* maxSteps: imagePairs.length + 5
CheckDivisor == 3    \* Math.floor(imagePairs.length / 3)
StartProgress == 5
StepBase == 10
StepBand == 70
StepCeiling == 85
DeniedProgress == 70
NoReportProgress == 85
ReportProgress == 90
DoneProgress == 100

\* ------------------------------------------------------------ plain values
Undefined == <<>>
Some(x) == <<x>>
Null == "null"

Min(a, b) == IF a <= b THEN a ELSE b
Max(a, b) == IF a >= b THEN a ELSE b

RECURSIVE GCD(_, _)
GCD(a, b) == IF b = 0 THEN a ELSE GCD(b, a % b)

\* A JavaScript number that is the quotient of two integers, in lowest terms.
Rat(n, d) == LET g == GCD(n, d) IN [num |-> n \div g, den |-> d \div g]
Whole(n) == [num |-> n, den |-> 1]
RatLeq(a, b) == a.num * b.den <= b.num * a.den
RatMin(a, b) == IF RatLeq(a, b) THEN a ELSE b
IsInteger(a) == a.den = 1

Runs == 1..MaxRuns
Buildings == {"B1"}
GateTypes == {"anomaly_detection", "generate_report"}

VARIABLES
    buildingInfo,        \* this.state.buildingInfo
    imagePairs,          \* this.state.imagePairs
    analysisState,       \* this.state.analysisState
    shouldStopAnalysis,  \* the agent's private cancellation flag
    run,                 \* the startAnalysis invocations and their streams
    nruns,               \* startAnalysis invocations that passed the precondition
    ncmd,                \* command invocations so far
    ntools,              \* tool calls the language model has made so far
    lastCall             \* the command that has just returned, and how

vars == <<buildingInfo, imagePairs, analysisState, shouldStopAnalysis, run,
          nruns, ncmd, ntools, lastCall>>

\* ------------------------------------------------------------ session state
\* An analysisState with every optional field undefined and empty collections.
FreshState(log) ==
    [status |-> "idle", progress |-> Whole(0),
     currentImagePair |-> Undefined, totalImagePairs |-> Undefined,
     analysisLog |-> log, detectedAnomalies |-> <<>>,
     finalReport |-> Undefined, energyRating |-> Undefined, error |-> Undefined,
     pendingApprovals |-> <<>>, approvalHistory |-> <<>>]

\* resetAnalysisState(): the analysisState it installs.
resetAnalysisState == FreshState(<<>>)

\* updateProgress(progress, message) applied to analysisState s (the wall-clock
\* prefix of the log line is left out).
updateProgress(s, progress, message) ==
    [s EXCEPT !.progress = progress, !.analysisLog = Append(@, message)]

\* The image-pair list of n pairs: pair i has label "pair i".
MakePairs(n) == [i \in 1..n |-> i]
PairLabel(i) == "pair " \o ToString(i)

\* `${type}_${Date.now()}_${random}`: distinct for every request; seq is the
\* invocation that made it, which makes at most one request of each type.
NewApprovalId(type, r) == [type |-> type, seq |-> r]
UnknownId == [type |-> "start_analysis", seq |-> 0]

PendingIds(s) == {s.pendingApprovals[i].id : i \in DOMAIN s.pendingApprovals}
HistoryIds(s) == {s.approvalHistory[i].approvalId : i \in DOMAIN s.approvalHistory}
\* A filter that keeps every entry.
WithoutPending_KeepsAll(s, id) == s.pendingApprovals
WithoutPending(s, id) ==
    LET Keep(p) == p.id # id IN SelectSeq(s.pendingApprovals, Keep)
IsSevere(a) == a.severity = "severe"
HasSevere(s) == \E i \in DOMAIN s.detectedAnomalies : IsSevere(s.detectedAnomalies[i])

\* ---------------------------------------------------------------- the runs
\* One startAnalysis invocation: where its body stands (pc), its locals, the
\* streamText call it consumes (steps, calls, unread, ended), and what has
\* happened to it: the image pairs its language model called analyzeImagePair
\* for, whether a model call of one of its tools failed, how many anomalies
\* were recorded when it last asked for an anomaly approval, the gate types it saw
\* approved and denied, whether stopAnalysis was called while it streamed or
\* waited, and how it ended.
NoRun ==
    [pc |-> "none", gate |-> "none", ret |-> FALSE,
     criticalAnomaliesFound |-> FALSE, imagePairAnalyzed |-> 0, nPairs |-> 0,
     steps |-> 0, calls |-> <<>>, unread |-> 0, ended |-> FALSE,
     attempted |-> {}, failed |-> FALSE, escalated |-> 0,
     approved |-> {}, denied |-> {},
     stopWhileAnalyzing |-> FALSE, stopWhileWaiting |-> FALSE, end |-> "none"]

\* maxSteps: Math.min(20, imagePairs.length + 5)
MaxSteps(n) == Min(StepCap, n + StepExtra)

\* The tool calls the language model can ask for in one step.
ToolChoices(n) ==
    {[tool |-> "analyzeImagePair", label |-> i, result |-> "running"] :
        i \in 1..Min(n, MaxLabel)}
    \cup {[tool |-> "generateEnergyReport", label |-> 0, result |-> "running"]}
StepChoices(n, left) ==
    UNION {[1..k -> ToolChoices(n)] : k \in 0..left}
\* The image pairs that the tool calls `calls` hand to analyzeImagePair.
PairsOf(calls) ==
    {calls[i].label : i \in {j \in DOMAIN calls : calls[j].tool = "analyzeImagePair"}}

Active(r) == run[r].pc \notin {"none", "done"}
\* A gate's continuation is a microtask: it runs before any other task.
NoMicrotask == \A r \in Runs : run[r].pc # "resumed"

TypeOK ==
    /\ buildingInfo \in Buildings \cup {Null}
    /\ shouldStopAnalysis \in BOOLEAN
    /\ nruns \in 0..MaxRuns
    /\ ncmd \in 0..(MaxCmds + 1)
    /\ analysisState.status \in
         {"idle", "analyzing", "awaiting_approval", "completed", "error", "stopped"}

Init ==
    /\ buildingInfo = Null
    /\ imagePairs = <<>>
    /\ analysisState = FreshState(<<>>)
    /\ shouldStopAnalysis = FALSE
    /\ run = [r \in Runs |-> NoRun]
    /\ nruns = 0
    /\ ncmd = 0
    /\ ntools = 0
    /\ lastCall = [op |-> "none", arg |-> Undefined, outcome |-> "none"]

\* ------------------------------------------------------------- the commands
NoCall == [op |-> "none", arg |-> Undefined, outcome |-> "none"]
\* A command that took effect.
Called(op, arg) ==
    /\ ncmd' = ncmd + 1
    /\ lastCall' = [op |-> op, arg |-> arg, outcome |-> "ok"]
\* A command that threw before it changed anything.
Threw(op, arg, error) ==
    /\ ncmd' = ncmd
    /\ lastCall' = [op |-> op, arg |-> arg, outcome |-> error]
\* A step that is no command.
Internal == ncmd' = ncmd /\ lastCall' = NoCall
CanCall == NoMicrotask

\* initializeAnalysis(buildingInfo, imagePairs)
InitializeAnalysis(b, n) ==
    /\ CanCall
    /\ buildingInfo' = b
    /\ imagePairs' = MakePairs(n)
    /\ analysisState' = FreshState(<<"Initialized analysis for " \o b>>)
    /\ Called("initializeAnalysis", Undefined)
    /\ UNCHANGED <<shouldStopAnalysis, run, nruns, ntools>>

\* The precondition of startAnalysis.
\* A precondition that looks at buildingInfo alone.
PreconditionUnmet_InfoOnly(b, pairs) == b = Null
PreconditionUnmet(b, pairs) == b = Null \/ Len(pairs) = 0

\* startAnalysis() up to its first suspension: the precondition, the reset, the
\* first state update, updateProgress(5), and the streamText call, whose first
\* step the language model answers with the tool calls `first`.
\* A start that resets everything but the anomalies found so far.
StartedState_KeepsAnomalies ==
    LET s0 == resetAnalysisState
        s1 == [s0 EXCEPT !.status = "analyzing",
                         !.totalImagePairs = Some(Len(imagePairs)),
                         !.detectedAnomalies = analysisState.detectedAnomalies,
                         !.analysisLog = Append(@, "Starting AI-powered thermal analysis...")]
    IN updateProgress(s1, Whole(StartProgress), "Initializing AI analysis engine...")
StartedState ==
    LET s0 == resetAnalysisState
        s1 == [s0 EXCEPT !.status = "analyzing",
                         !.totalImagePairs = Some(Len(imagePairs)),
                         !.analysisLog = Append(@, "Starting AI-powered thermal analysis...")]
    IN updateProgress(s1, Whole(StartProgress), "Initializing AI analysis engine...")

StartAnalysisRejected ==
    /\ CanCall
    /\ PreconditionUnmet(buildingInfo, imagePairs)
    /\ Threw("startAnalysis", Undefined, "precondition_error")
    /\ UNCHANGED <<buildingInfo, imagePairs, analysisState, shouldStopAnalysis, run, nruns, ntools>>

StartAnalysisAccepted(first) ==
    /\ CanCall
    /\ ~PreconditionUnmet(buildingInfo, imagePairs)
    /\ shouldStopAnalysis' = FALSE
    /\ analysisState' = StartedState
    /\ nruns' = nruns + 1
    /\ run' = [run EXCEPT ![nruns + 1] =
                 [NoRun EXCEPT !.pc = "streaming",
                               !.nPairs = Len(imagePairs),
                               !.calls = first,
                               !.attempted = PairsOf(first)]]
    /\ ntools' = ntools + Len(first)
    /\ Called("startAnalysis", Undefined)
    /\ UNCHANGED <<buildingInfo, imagePairs>>

\* restartAnalysis(): the analysisState it installs.
\* A restart that carries the report and the decisions over.
RestartedState_KeepsReport ==
    [FreshState(<<"Analysis restarted - ready to begin">>)
        EXCEPT !.finalReport = analysisState.finalReport,
               !.approvalHistory = analysisState.approvalHistory]
RestartedState == FreshState(<<"Analysis restarted - ready to begin">>)

RestartAnalysis ==
    /\ CanCall
    /\ analysisState' = RestartedState
    /\ Called("restartAnalysis", Undefined)
    /\ UNCHANGED <<buildingInfo, imagePairs, shouldStopAnalysis, run, nruns, ntools>>

\* stopAnalysis(): the analysisState it installs.
\* A stop that also withdraws the pending approvals.
StoppedState_DropsPending(s) ==
    [s EXCEPT !.status = "stopped",
              !.pendingApprovals = <<>>,
              !.analysisLog = Append(@, "Analysis stopped by user")]
StoppedState(s) ==
    [s EXCEPT !.status = "stopped",
              !.analysisLog = Append(@, "Analysis stopped by user")]

StopAnalysis ==
    /\ CanCall
    /\ shouldStopAnalysis' = TRUE
    /\ analysisState' = StoppedState(analysisState)
    /\ run' = [r \in Runs |->
                 [run[r] EXCEPT
                    !.stopWhileAnalyzing =
                        @ \/ (run[r].pc = "streaming" /\ analysisState.status = "analyzing"),
                    !.stopWhileWaiting = @ \/ run[r].pc = "gate"]]
    /\ Called("stopAnalysis", Undefined)
    /\ UNCHANGED <<buildingInfo, imagePairs, nruns, ntools>>

\* provideApproval(decision): the validation that the approval is still pending.
\* A lookup that takes every identifier for a pending one.
StillPending_Unchecked(s, id) == id \in PendingIds(s) \cup {UnknownId} \cup HistoryIds(s)
StillPending(s, id) == id \in PendingIds(s)

Reasons == {Undefined, Some("seen")}
Decisions(ids) ==
    {[approvalId |-> id, approved |-> a, reason |-> why] :
        id \in ids, a \in BOOLEAN, why \in Reasons}

\* A provideApproval that puts the decision at the head of the history.
ProvideApproval_Prepends(decision) ==
    /\ CanCall
    /\ IF StillPending(analysisState, decision.approvalId)
         THEN /\ analysisState' =
                    [analysisState EXCEPT !.approvalHistory = <<decision>> \o @]
              /\ Called("provideApproval", <<decision.approvalId, decision>>)
         ELSE /\ Threw("provideApproval", Some(decision.approvalId), "not_found_error")
              /\ UNCHANGED analysisState
    /\ UNCHANGED <<buildingInfo, imagePairs, shouldStopAnalysis, run, nruns, ntools>>
ProvideApproval(decision) ==
    /\ CanCall
    /\ IF StillPending(analysisState, decision.approvalId)
         THEN /\ analysisState' =
                    [analysisState EXCEPT !.approvalHistory = Append(@, decision)]
              /\ Called("provideApproval", <<decision.approvalId, decision>>)
         ELSE /\ Threw("provideApproval", Some(decision.approvalId), "not_found_error")
              /\ UNCHANGED analysisState
    /\ UNCHANGED <<buildingInfo, imagePairs, shouldStopAnalysis, run, nruns, ntools>>

\* clearApprovals()
ClearApprovals ==
    /\ CanCall
    /\ analysisState' =
          [analysisState EXCEPT !.pendingApprovals = <<>>, !.approvalHistory = <<>>]
    /\ Called("clearApprovals", Undefined)
    /\ UNCHANGED <<buildingInfo, imagePairs, shouldStopAnalysis, run, nruns, ntools>>

\* ------------------------------------------------------ the approval gate
\* requestApproval(type, title, ...): the state it publishes before it waits.
\* The first checkApproval() runs in the same task and finds neither a decision
\* for the new identifier nor (the callers have just tested it) the flag.
requestApproval(s, id, type, title) ==
    [s EXCEPT !.status = "awaiting_approval",
              !.pendingApprovals = Append(@, [id |-> id, type |-> type, title |-> title]),
              !.analysisLog = Append(@, "Waiting for approval: " \o title)]

GateTitle(type) ==
    IF type = "anomaly_detection" THEN "Critical Thermal Issues Found"
    ELSE "Generate Comprehensive Report"

\* state.approvalHistory.find(d => d.approvalId === approvalId)
\* A lookup that puts the latest matching decision first.
FindDecision_Latest(s, id) ==
    LET Match(d) == d.approvalId = id
        m == SelectSeq(s.approvalHistory, Match)
    IN [i \in 1..Len(m) |-> m[Len(m) + 1 - i]]
FindDecision(s, id) ==
    LET Match(d) == d.approvalId = id IN SelectSeq(s.approvalHistory, Match)

\* The status checkApproval installs when it finds a decision.
DecidedStatus(approved) == IF approved THEN "analyzing" ELSE "idle"

DecisionLine(title, d) ==
    title \o ": " \o (IF d.approved THEN "Approved" ELSE "Denied")
          \o (IF d.reason # Undefined THEN " - " \o d.reason[1] ELSE "")

\* checkApproval(), the timer callback: a decision first, the flag second,
\* otherwise it re-arms the timer (no change).
CheckApproval(r) ==
    LET id == NewApprovalId(run[r].gate, r)
        found == FindDecision(analysisState, id)
    IN /\ run[r].pc = "gate"
       /\ NoMicrotask
       /\ IF found # <<>>
            THEN /\ analysisState' =
                      [analysisState EXCEPT
                         !.status = DecidedStatus(found[1].approved),
                         !.pendingApprovals = WithoutPending(analysisState, id),
                         !.analysisLog = Append(@, DecisionLine(GateTitle(run[r].gate), found[1]))]
                 /\ run' = [run EXCEPT ![r].pc = "resumed",
                                       ![r].ret = found[1].approved,
                                       ![r].approved =
                                           IF found[1].approved THEN @ \cup {run[r].gate} ELSE @,
                                       ![r].denied =
                                           IF found[1].approved THEN @ ELSE @ \cup {run[r].gate}]
            ELSE /\ shouldStopAnalysis
                 /\ analysisState' =
                      [analysisState EXCEPT
                         !.status = "stopped",
                         !.pendingApprovals = WithoutPending(analysisState, id)]
                 /\ run' = [run EXCEPT ![r].pc = "resumed", ![r].ret = FALSE]
       /\ Internal
       /\ UNCHANGED <<buildingInfo, imagePairs, shouldStopAnalysis, nruns, ntools>>

\* ------------------------------------------------------ the step executors
\* A model text is the set of lower-case keywords it contains.
validateSeverity(text) ==
    IF "severe" \in text THEN "severe"
    ELSE IF "moderate" \in text THEN "moderate"
    ELSE "minor"

SeverityTexts == {{"severe"}, {}}

\* A JavaScript number: a value or NaN.
Num(v) == [nan |-> FALSE, val |-> v]
NaN == [nan |-> TRUE, val |-> 0]
\* A coordinate text is the sequence of its comma-separated fields (split(",")
\* returns at least one field); a field is numeric text, possibly padded with
\* blanks, or text that is no number.
trim(f) ==
    CASE f = " 0" -> "0" [] f = "1 " -> "1" [] OTHER -> f
parseFloat(f) ==
    CASE f = "0" -> Num(0) [] f = "1" -> Num(1) [] OTHER -> NaN
\* parseCoordinates(coordText): split and map never throw on a string, so the
\* catch block with the [0, 0, 1, 1] fallback is never entered.
parseCoordinates(text) == [i \in DOMAIN text |-> parseFloat(trim(text[i]))]
CoordTexts == {<<" 0", "0", "1", "1 ">>, <<"0", "x">>}

\* What one analyzeImagePair call can come back with: a model failure, or the
\* anomalies of the model's answer.
AnalyzeOutcomes ==
    {[ok |-> FALSE, severities |-> <<>>, coords |-> <<>>]}
    \cup {[ok |-> TRUE, severities |-> <<t>>, coords |-> <<c>>] :
             t \in SeverityTexts, c \in CoordTexts}

\* ratingResult.object.rating.charAt(0).toUpperCase(), checked against A..G.
UpperCase(c) ==
    CASE c = "a" -> "A" [] c = "b" -> "B" [] c = "c" -> "C" [] c = "d" -> "D"
      [] c = "e" -> "E" [] c = "f" -> "F" [] c = "g" -> "G" [] OTHER -> c
CharAt0(text) == IF text = <<>> THEN "" ELSE text[1]
\* A rating taken from the model as it comes.
ValidRating_Unchecked(text) == UpperCase(CharAt0(text))
ValidRating(text) ==
    LET c == UpperCase(CharAt0(text))
    IN IF c \in {"A", "B", "C", "D", "E", "F", "G"} THEN c ELSE "D"

RatingTexts == {<<"b">>, <<"?">>}
ReportOutcomes ==
    {[ok |-> FALSE, rating |-> <<>>, text |-> ""]}
    \cup {[ok |-> TRUE, rating |-> t, text |-> "report"] : t \in RatingTexts}

\* analyzeImagePair.execute after its model call: the new analysisState and the
\* string it returns.
\* An executor whose model failure marks the session failed.
AnalyzeState_FailureIsFatal(s, label, out) ==
    IF out.ok
      THEN [s EXCEPT !.detectedAnomalies =
              @ \o [i \in DOMAIN out.severities |->
                      [pair |-> label, index |-> i - 1,
                       severity |-> validateSeverity(out.severities[i]),
                       coordinates |-> parseCoordinates(out.coords[i])]]]
      ELSE [s EXCEPT !.status = "error"]
AnalyzeState(s, label, out) ==
    IF out.ok
      THEN [s EXCEPT !.detectedAnomalies =
              @ \o [i \in DOMAIN out.severities |->
                      [pair |-> label, index |-> i - 1,
                       severity |-> validateSeverity(out.severities[i]),
                       coordinates |-> parseCoordinates(out.coords[i])]]]
      ELSE s
AnalyzeResult(label, out) ==
    IF out.ok THEN "{" ELSE "Error analyzing " \o PairLabel(label) \o ": model failure"

\* generateEnergyReport.execute after its two model calls.
\* An executor that stores the fallback rating when its model calls fail.
ReportState_RatesOnFailure(s, b, out) ==
    IF out.ok /\ b # Null
      THEN [s EXCEPT !.finalReport = Some(out.text),
                     !.energyRating = Some(ValidRating(out.rating))]
      ELSE [s EXCEPT !.energyRating = Some("D")]
ReportState(s, b, out) ==
    IF out.ok /\ b # Null
      THEN [s EXCEPT !.finalReport = Some(out.text),
                     !.energyRating = Some(ValidRating(out.rating))]
      ELSE s
ReportResult(b, out) ==
    IF b = Null THEN "Error generating report: Building information not available"
    ELSE IF out.ok
      THEN "Energy efficiency report generated successfully. Energy Rating: "
              \o ValidRating(out.rating)
      ELSE "Error generating report: model failure"

\* A tool call that the stream started comes back.
AnalyzeFinish(r, i, out) ==
    /\ run[r].pc # "none"
    /\ NoMicrotask
    /\ i \in DOMAIN run[r].calls
    /\ run[r].calls[i].tool = "analyzeImagePair"
    /\ run[r].calls[i].result = "running"
    /\ analysisState' = AnalyzeState(analysisState, run[r].calls[i].label, out)
    /\ run' = [run EXCEPT ![r].calls[i].result = AnalyzeResult(run[r].calls[i].label, out),
                          ![r].unread = @ + 1,
                          ![r].failed = @ \/ ~out.ok]
    /\ Internal
       /\ UNCHANGED <<buildingInfo, imagePairs, shouldStopAnalysis, nruns, ntools>>

ReportFinish(r, i, out) ==
    /\ run[r].pc # "none"
    /\ NoMicrotask
    /\ i \in DOMAIN run[r].calls
    /\ run[r].calls[i].tool = "generateEnergyReport"
    /\ run[r].calls[i].result = "running"
    /\ analysisState' = ReportState(analysisState, buildingInfo, out)
    /\ run' = [run EXCEPT ![r].calls[i].result = ReportResult(buildingInfo, out),
                          ![r].unread = @ + 1,
                          ![r].failed = @ \/ ~out.ok]
    /\ Internal
       /\ UNCHANGED <<buildingInfo, imagePairs, shouldStopAnalysis, nruns, ntools>>

\* ----------------------------------------------------- the streamText call
\* onStepFinish(result) for a step whose tool calls were `calls`.
StepProgress(k, n) ==
    RatMin(Rat(StepBase * MaxSteps(n) + k * StepBand, MaxSteps(n)), Whole(StepCeiling))
CallLine(c) ==
    IF c.tool = "analyzeImagePair" THEN "Analyzing " \o PairLabel(c.label) \o "..."
    ELSE "Generating comprehensive energy report..."
onStepFinish(s, stop, calls, n) ==
    IF stop THEN s
    ELSE LET k == Len(calls)
             s1 == updateProgress(s, StepProgress(k, n),
                                  "Completed analysis step " \o ToString(k + 1))
         IN [s1 EXCEPT !.analysisLog =
                @ \o [i \in 1..k |-> CallLine(calls[i])]
                  \o [i \in 1..k |-> calls[i].result]]

\* A step of the stream finishes: every tool call of the step has come back,
\* onStepFinish runs, and the language model answers the next step with the
\* tool calls `next` unless the step made no call or maxSteps is used up.
StepFinish(r, next) ==
    LET last == Len(run[r].calls) = 0 \/ run[r].steps + 1 >= MaxSteps(run[r].nPairs)
    IN /\ run[r].pc \in {"streaming", "gate"}
       /\ NoMicrotask
       /\ ~run[r].ended
       /\ \A i \in DOMAIN run[r].calls : run[r].calls[i].result # "running"
       /\ last => next = <<>>
       /\ analysisState' =
            onStepFinish(analysisState, shouldStopAnalysis, run[r].calls, run[r].nPairs)
       /\ run' = [run EXCEPT ![r].steps = @ + 1,
                             ![r].ended = last,
                             ![r].calls = next,
                             ![r].attempted = @ \cup PairsOf(next)]
       /\ ntools' = ntools + Len(next)
       /\ Internal
       /\ UNCHANGED <<buildingInfo, imagePairs, shouldStopAnalysis, nruns>>

\* --------------------------------------------- the body of startAnalysis
\* imagePairAnalyzed % Math.max(1, Math.floor(imagePairs.length / 3)) === 0
AtCheckpoint(analyzed, n) == analyzed % Max(1, n \div CheckDivisor) = 0

\* The run has ended: the finally block clears the flag.
Finished(r, how) ==
    /\ shouldStopAnalysis' = FALSE
    /\ run' = [run EXCEPT ![r].pc = "done", ![r].end = how]

\* The loop body for a tool-result part: count it and, at a checkpoint with a
\* severe anomaly not yet escalated, open the anomaly_detection gate.
ToolResultPart(r) ==
    LET analyzed == run[r].imagePairAnalyzed + 1
        escalate == /\ AtCheckpoint(analyzed, run[r].nPairs)
                    /\ HasSevere(analysisState)
                    /\ ~run[r].criticalAnomaliesFound
    IN /\ run[r].pc = "streaming"
       /\ NoMicrotask
       /\ run[r].unread > 0
       /\ ~shouldStopAnalysis
       /\ IF escalate
            THEN /\ analysisState' =
                      requestApproval(analysisState, NewApprovalId("anomaly_detection", r),
                                      "anomaly_detection", GateTitle("anomaly_detection"))
                 /\ run' = [run EXCEPT ![r].imagePairAnalyzed = analyzed,
                                       ![r].unread = @ - 1,
                                       ![r].criticalAnomaliesFound = TRUE,
                                       ![r].escalated = Len(analysisState.detectedAnomalies),
                                       ![r].pc = "gate",
                                       ![r].gate = "anomaly_detection"]
            ELSE /\ run' = [run EXCEPT ![r].imagePairAnalyzed = analyzed,
                                       ![r].unread = @ - 1]
                 /\ UNCHANGED analysisState
       /\ Internal
       /\ UNCHANGED <<buildingInfo, imagePairs, shouldStopAnalysis, nruns, ntools>>

\* The analysisState of a completed run.
\* A completion that hands the anomalies over and empties the list.
CompletedState_DropsAnomalies(s, findings) ==
    [s EXCEPT !.status = "completed",
              !.progress = Whole(DoneProgress),
              !.detectedAnomalies = <<>>]
CompletedState(s, findings) ==
    [s EXCEPT !.status = "completed",
              !.progress = Whole(DoneProgress),
              !.analysisLog = @ \o
                 << "Thermal analysis completed successfully!",
                    "Found " \o ToString(Len(s.detectedAnomalies)) \o " thermal anomalies",
                    "Energy rating: " \o
                        (IF s.energyRating # Undefined THEN s.energyRating[1]
                         ELSE "Calculating..."),
                    "Analysis summary: ...",
                    IF findings THEN "Analysis completed with findings"
                    ELSE "Analysis completed - no issues found" >>]

\* The analysisState of the branch taken when the loop was left on the flag.
StoppedDuringState(s) ==
    [s EXCEPT !.status = "stopped",
              !.analysisLog = Append(@, "Analysis was stopped during processing")]

\* The loop is left, on a part that finds the flag raised (break) or at the end
\* of the stream, and the code after it runs:
\* if (!this.shouldStopAnalysis) { report checkpoint / completed } else { stopped }.
AfterLoop(r) ==
    /\ run[r].pc = "streaming"
    /\ shouldStopAnalysis \/ (run[r].ended /\ run[r].unread = 0)
    /\ NoMicrotask
    /\ IF ~shouldStopAnalysis
         THEN IF Len(analysisState.detectedAnomalies) > 0
                THEN /\ analysisState' =
                          requestApproval(analysisState, NewApprovalId("generate_report", r),
                                          "generate_report", GateTitle("generate_report"))
                     /\ run' = [run EXCEPT ![r].pc = "gate", ![r].gate = "generate_report"]
                     /\ UNCHANGED shouldStopAnalysis
                ELSE /\ analysisState' = CompletedState(analysisState, FALSE)
                     /\ Finished(r, "completed")
         ELSE /\ analysisState' = StoppedDuringState(analysisState)
              /\ Finished(r, "stopped")
    /\ Internal
    /\ UNCHANGED <<buildingInfo, imagePairs, nruns, ntools>>

\* The analysisState after the anomaly_detection gate returned false.
\* A denial branch that records the progress and the log line only.
DeniedState_KeepsStatus(s) ==
    updateProgress([s EXCEPT !.progress = Whole(DeniedProgress)],
                   Whole(DeniedProgress),
                   "Analysis stopped after critical anomaly detection")
DeniedState(s) ==
    updateProgress([s EXCEPT !.status = "stopped", !.progress = Whole(DeniedProgress)],
                   Whole(DeniedProgress),
                   "Analysis stopped after critical anomaly detection")

\* The analysisState after the generate_report gate returned.
ReportDecidedState(s, reportApproved) ==
    IF ~reportApproved
      THEN updateProgress(s, Whole(NoReportProgress), "Analysis completed without detailed report")
      ELSE updateProgress(s, Whole(ReportProgress), "Generating comprehensive report...")

\* The continuation of `await this.requestApproval(...)`.
Resume(r) ==
    /\ run[r].pc = "resumed"
    /\ IF run[r].gate = "anomaly_detection"
         THEN IF ~run[r].ret
                THEN /\ analysisState' = DeniedState(analysisState)
                     /\ Finished(r, "stopped")
                ELSE /\ analysisState' =
                          updateProgress(analysisState, analysisState.progress,
                                         "Continuing analysis after approval...")
                     /\ run' = [run EXCEPT ![r].pc = "streaming"]
                     /\ UNCHANGED shouldStopAnalysis
         ELSE /\ analysisState' =
                   CompletedState(ReportDecidedState(analysisState, run[r].ret), TRUE)
              /\ Finished(r, "completed")
    /\ Internal
    /\ UNCHANGED <<buildingInfo, imagePairs, nruns, ntools>>

\* The model call of a step fails and the stream throws into the loop: the
\* catch block, then finally.
ErrorState(s, message) ==
    [s EXCEPT !.status = "error",
              !.error = Some(message),
              !.analysisLog = Append(@, "Analysis failed: " \o message)]

StreamThrows(r) ==
    /\ run[r].pc = "streaming"
    /\ NoMicrotask
    /\ ~run[r].ended
    /\ \A i \in DOMAIN run[r].calls : run[r].calls[i].result = "running"
    /\ analysisState' = ErrorState(analysisState, "stream error")
    /\ Finished(r, "error")
    /\ Internal
    /\ UNCHANGED <<buildingInfo, imagePairs, nruns, ntools>>

\* ------------------------------------------------------- the specification
\* What a behaviour is bounded by: invocations that start a run, commands that
\* take effect, tool calls of the language model, and the image-pair counts
\* handed to initializeAnalysis.
Bounds(runs, cmds, tools, pairs) ==
    [runs |-> runs, cmds |-> cmds, tools |-> tools, pairs |-> pairs]

Commands(K) ==
    \/ /\ ncmd < K.cmds
       /\ \E b \in Buildings, n \in K.pairs : InitializeAnalysis(b, n)
    \/ StartAnalysisRejected
    \/ /\ ncmd < K.cmds /\ nruns < K.runs
       /\ \E first \in StepChoices(Len(imagePairs), K.tools - ntools) :
             StartAnalysisAccepted(first)
    \/ ncmd < K.cmds /\ RestartAnalysis
    \/ ncmd < K.cmds /\ StopAnalysis
    \/ \E d \in Decisions(PendingIds(analysisState) \cup HistoryIds(analysisState)
                            \cup {UnknownId}) :
          /\ StillPending(analysisState, d.approvalId) => ncmd < K.cmds
          /\ ProvideApproval(d)
    \/ ncmd < K.cmds /\ ClearApprovals

Orchestration(K) ==
    \/ \E r \in Runs : CheckApproval(r)
    \/ \E r \in Runs : Resume(r)
    \/ \E r \in Runs, i \in 1..K.tools, out \in AnalyzeOutcomes : AnalyzeFinish(r, i, out)
    \/ \E r \in Runs, i \in 1..K.tools, out \in ReportOutcomes : ReportFinish(r, i, out)
    \/ \E r \in Runs : \E next \in StepChoices(run[r].nPairs, K.tools - ntools) :
          StepFinish(r, next)
    \/ \E r \in Runs : ToolResultPart(r)
    \/ \E r \in Runs : AfterLoop(r)

Faults ==
    \E r \in Runs : StreamThrows(r)

General == Bounds(MaxRuns, MaxCmds, MaxTools, {0, 1, MaxPairs})
Next == Commands(General) \/ Orchestration(General) \/ Faults
Spec == Init /\ [][Next]_vars

\* One more command, over sessions of one image pair and a language model that
\* makes one tool call less.
Long == Bounds(MaxRuns, MaxCmds + 1, MaxTools - 1, {1})
NextLong == Commands(Long) \/ Orchestration(Long) \/ Faults
SpecLong == Init /\ [][NextLong]_vars

\* ------------------------------------------------------------ the claims
\* The step is a call of command `op` (a call that repeats the rejected call
\* before it changes no variable).
CallStep(op) == lastCall'.op = op /\ (lastCall' # lastCall \/ ncmd' # ncmd)
ActiveRuns == {r \in Runs : Active(r)}
RunEnds(r, how) == run[r].pc # "done" /\ run'[r].pc = "done" /\ run'[r].end = how

\* C1: at any time at most one orchestrator run is active for a session (a
\* startAnalysis made while a run is in progress begins no second run).
C1_AtMostOneActiveRun == Cardinality(ActiveRuns) <= 1

\* C2: startAnalysis called with buildingInfo null or imagePairs empty fails
\* with the precondition error and changes nothing: not the session state, not
\* the cancellation flag, and it starts no run.
C2_StartPreconditionFrame ==
    [][(CallStep("startAnalysis") /\ (buildingInfo = Null \/ imagePairs = <<>>))
         => /\ lastCall'.outcome = "precondition_error"
            /\ UNCHANGED <<buildingInfo, imagePairs, analysisState,
                           shouldStopAnalysis, run, nruns>>]_vars
\* startAnalysis has been rejected for an initialized session without pairs.
C2_Witness ==
    /\ lastCall.op = "startAnalysis" /\ lastCall.outcome = "precondition_error"
    /\ buildingInfo # Null /\ imagePairs = <<>>
    /\ analysisState.analysisLog # <<>>

\* C3: a run that stopAnalysis was called on while it streamed with status
\* analyzing does not end completed.
C3_StopWhileAnalyzingNotCompleted ==
    \A r \in Runs : run[r].stopWhileAnalyzing => run[r].end # "completed"

\* C4: a run that stopAnalysis was called on while it waited at an approval
\* gate does not end completed.
C4_StopWhileWaitingNotCompleted ==
    \A r \in Runs : run[r].stopWhileWaiting => run[r].end # "completed"

\* C5: provideApproval for an identifier that is not pending fails with the
\* not-found error and changes no state.
C5_UnknownApprovalFrame ==
    [][(CallStep("provideApproval") /\ lastCall'.arg[1] \notin PendingIds(analysisState))
         => /\ lastCall'.outcome = "not_found_error"
            /\ UNCHANGED <<buildingInfo, imagePairs, analysisState,
                           shouldStopAnalysis, run, nruns>>]_vars
\* A decision has been rejected while another approval was pending.
C5_Witness ==
    /\ lastCall.op = "provideApproval" /\ lastCall.outcome = "not_found_error"
    /\ analysisState.pendingApprovals # <<>>

\* C6: approvalHistory holds at most one decision for an approval identifier.
C6_OneDecisionPerId ==
    \A i, j \in DOMAIN analysisState.approvalHistory :
        i # j => analysisState.approvalHistory[i].approvalId
                    # analysisState.approvalHistory[j].approvalId

\* C7: restartAnalysis leaves status idle, progress 0, a log of the restart
\* line alone, no anomalies, no approvals, no report, rating or error, and
\* buildingInfo and imagePairs as they were.
C7_RestartResets ==
    [][CallStep("restartAnalysis")
         => /\ analysisState'.status = "idle"
            /\ analysisState'.progress = Whole(0)
            /\ Len(analysisState'.analysisLog) = 1
            /\ analysisState'.detectedAnomalies = <<>>
            /\ analysisState'.pendingApprovals = <<>>
            /\ analysisState'.approvalHistory = <<>>
            /\ analysisState'.finalReport = Undefined
            /\ analysisState'.energyRating = Undefined
            /\ analysisState'.error = Undefined
            /\ UNCHANGED <<buildingInfo, imagePairs>>]_vars
\* restartAnalysis has been called on an initialized session after a run ended.
C7_Witness ==
    /\ lastCall.op = "restartAnalysis"
    /\ buildingInfo # Null /\ imagePairs # <<>>
    /\ \E r \in Runs : run[r].pc = "done"

\* C8: the only run of a session, never stopped, does not end completed with a
\* severe anomaly in detectedAnomalies unless it saw an anomaly_detection
\* approval approved.
C8_SevereNeedsApproval ==
    [][\A r \in Runs :
          (/\ nruns = 1 /\ ~run[r].stopWhileAnalyzing /\ ~run[r].stopWhileWaiting
           /\ RunEnds(r, "completed") /\ HasSevere(analysisState'))
            => "anomaly_detection" \in run[r].approved]_vars

\* C9: finalReport is set only after a run saw a generate_report approval
\* approved.
C9_ReportNeedsApproval ==
    analysisState.finalReport # Undefined
        => \E r \in Runs : "generate_report" \in run[r].approved

\* C10: a run whose generate_report approval was denied ends completed with
\* finalReport and energyRating unset.
C10_DeniedReportLeavesNone ==
    [][\A r \in Runs :
          (nruns = 1 /\ "generate_report" \in run[r].denied
             /\ run[r].pc = "resumed" /\ run'[r].pc = "done")
            => /\ analysisState'.status = "completed"
               /\ analysisState'.finalReport = Undefined
               /\ analysisState'.energyRating = Undefined]_vars

Ratings == {"A", "B", "C", "D", "E", "F", "G"}
AnomalyDenied(r) == "anomaly_detection" \in run[r].denied

\* C11: the only run of a session, none of whose model calls failed, that saw
\* its generate_report approval approved ends completed with finalReport set
\* and an energyRating among A..G.
C11_ApprovedReportIsWritten ==
    [][\A r \in Runs :
          (/\ nruns = 1 /\ ~run[r].failed
           /\ "generate_report" \in run[r].approved
           /\ run[r].pc = "resumed" /\ run'[r].pc = "done")
            => /\ analysisState'.status = "completed"
               /\ analysisState'.finalReport # Undefined
               /\ \E g \in Ratings : analysisState'.energyRating = Some(g)]_vars

\* C12: the continuation of a denied anomaly_detection approval sets status
\* stopped and leaves progress as it was.
C12_DenialKeepsProgress ==
    [][\A r \in Runs :
          (/\ run[r].pc = "resumed" /\ run[r].gate = "anomaly_detection"
           /\ AnomalyDenied(r) /\ run'[r].pc = "done")
            => /\ analysisState'.status = "stopped"
               /\ analysisState'.progress = analysisState.progress]_vars

\* C13: once the only run of a session has ended on a denied anomaly_detection
\* approval, detectedAnomalies does not grow.
C13_NoAnomaliesAfterDenial ==
    [][\A r \in Runs :
          (nruns = 1 /\ run[r].pc = "done" /\ AnomalyDenied(r))
            => Len(analysisState'.detectedAnomalies)
                  <= Len(analysisState.detectedAnomalies)]_vars

\* C14: a run ends completed only after analyzeImagePair was called for every
\* image pair of the session.
C14_CompletedAfterAllPairs ==
    \A r \in Runs :
        run[r].end = "completed" => run[r].attempted = 1..run[r].nPairs

TerminalStatuses == {"completed", "stopped", "error"}
Waiting == {r \in Runs : run[r].pc = "gate"}

\* C15: the step on which a startAnalysis invocation finishes leaves the status
\* completed, stopped or error.
C15_FinishedRunIsTerminal ==
    [][\A r \in Runs :
          (run[r].pc # "done" /\ run'[r].pc = "done")
            => analysisState'.status \in TerminalStatuses]_vars
\* A run has finished on a denied anomaly_detection approval.
C15_Witness ==
    \E r \in Runs :
        /\ run[r].pc = "done" /\ run[r].end = "stopped" /\ AnomalyDenied(r)
        /\ analysisState.status = "stopped"

\* C16: status completed implies progress 100.
C16_CompletedAtHundred ==
    analysisState.status = "completed" => analysisState.progress = Whole(100)

\* C17: in a session with one run, a step that is no start, restart or
\* initialize does not lower progress.
C17_ProgressNeverDecreases ==
    [][(/\ nruns = 1
        /\ ~CallStep("startAnalysis") /\ ~CallStep("restartAnalysis")
        /\ ~CallStep("initializeAnalysis"))
         => RatLeq(analysisState.progress, analysisState'.progress)]_vars

\* C18: progress is an integer between 0 and 100.
C18_ProgressIsInteger ==
    /\ IsInteger(analysisState.progress)
    /\ analysisState.progress.num \in 0..100

\* C19: while a gate keeps waiting, a decision accepted for its identifier
\* stays in approvalHistory for the poll to find.
C19_AcceptedDecisionKept ==
    [][\A r \in Runs :
          (/\ run[r].pc = "gate" /\ run'[r].pc = "gate"
           /\ FindDecision(analysisState, NewApprovalId(run[r].gate, r)) # <<>>)
            => FindDecision(analysisState', NewApprovalId(run[r].gate, r)) # <<>>]_vars

\* C20: pendingApprovals holds at most one entry and at most one gate waits.
C20_OneGateAtATime ==
    /\ Len(analysisState.pendingApprovals) <= 1
    /\ Cardinality(Waiting) <= 1

\* Call i of run r is an analyzeImagePair call whose model call has failed.
AnalyzeFailed(c) ==
    /\ c.tool = "analyzeImagePair"
    /\ c.result = "Error analyzing " \o PairLabel(c.label) \o ": model failure"

\* C21: the step on which the model call of an analyzeImagePair execution
\* fails changes nothing of analysisState (no anomaly, no error status) and
\* leaves the run where it stands, with the failure as the tool's result.
C21_StepFailureContained ==
    [][\A r \in Runs : \A i \in DOMAIN run[r].calls :
          (/\ i \in DOMAIN run'[r].calls
           /\ run[r].calls[i].result = "running"
           /\ AnalyzeFailed(run'[r].calls[i]))
            => /\ analysisState' = analysisState
               /\ run'[r].pc = run[r].pc
               /\ run'[r].end = run[r].end]_vars
\* A run goes on streaming with status analyzing after such a failure.
C21_Witness ==
    \E r \in Runs : \E i \in DOMAIN run[r].calls :
        /\ AnalyzeFailed(run[r].calls[i])
        /\ run[r].pc = "streaming"
        /\ analysisState.status = "analyzing"

\* C22: in a session with one run, once the status is error no step other
\* than a restart, a new start or a new initialize changes it.
C22_ErrorStaysUntilRestart ==
    [][(/\ nruns = 1 /\ analysisState.status = "error"
        /\ ~CallStep("restartAnalysis") /\ ~CallStep("startAnalysis")
        /\ ~CallStep("initializeAnalysis"))
         => analysisState'.status = "error"]_vars

\* C23: once a session is initialized, no step changes buildingInfo or
\* imagePairs.
C23_InputsImmutable ==
    [][buildingInfo # Null => UNCHANGED <<buildingInfo, imagePairs>>]_vars

\* C24: stopAnalysis sets status stopped, appends one line to the log, raises
\* the cancellation flag and leaves every other field of the session alone.
C24_StopFrame ==
    [][CallStep("stopAnalysis")
         => /\ analysisState'.status = "stopped"
            /\ Len(analysisState'.analysisLog) = Len(analysisState.analysisLog) + 1
            /\ SubSeq(analysisState'.analysisLog, 1, Len(analysisState.analysisLog))
                  = analysisState.analysisLog
            /\ shouldStopAnalysis'
            /\ analysisState'.progress = analysisState.progress
            /\ analysisState'.detectedAnomalies = analysisState.detectedAnomalies
            /\ analysisState'.pendingApprovals = analysisState.pendingApprovals
            /\ analysisState'.approvalHistory = analysisState.approvalHistory
            /\ analysisState'.finalReport = analysisState.finalReport
            /\ analysisState'.energyRating = analysisState.energyRating
            /\ UNCHANGED <<buildingInfo, imagePairs>>]_vars
\* stopAnalysis has been called while an approval was pending and anomalies
\* were recorded.
C24_Witness ==
    /\ lastCall.op = "stopAnalysis"
    /\ analysisState.pendingApprovals # <<>>
    /\ analysisState.detectedAnomalies # <<>>

\* C25: startAnalysis called on an initialized session with image pairs, with
\* status idle or stopped and no run in progress, is accepted: the flag is
\* cleared, a run starts, status is analyzing, anomalies, pending approvals
\* and history are empty, and buildingInfo and imagePairs are as they were.
C25_StartAccepted ==
    [][(/\ CallStep("startAnalysis")
        /\ buildingInfo # Null /\ imagePairs # <<>>
        /\ analysisState.status \in {"idle", "stopped"}
        /\ ActiveRuns = {})
         => /\ lastCall'.outcome = "ok"
            /\ ~shouldStopAnalysis'
            /\ nruns' = nruns + 1
            /\ run'[nruns'].pc = "streaming"
            /\ analysisState'.status = "analyzing"
            /\ analysisState'.detectedAnomalies = <<>>
            /\ analysisState'.pendingApprovals = <<>>
            /\ analysisState'.approvalHistory = <<>>
            /\ UNCHANGED <<buildingInfo, imagePairs>>]_vars
\* A second run has just been started after the first one ended stopped.
C25_Witness ==
    /\ lastCall.op = "startAnalysis" /\ lastCall.outcome = "ok"
    /\ nruns = 2
    /\ run[1].pc = "done" /\ run[1].end = "stopped"

\* C26: a stop that directly follows a stop, and a restart that directly
\* follows a restart, leaves the session state as it was.
C26_RetryIsIdempotent ==
    [][\A op \in {"stopAnalysis", "restartAnalysis"} :
          (lastCall.op = op /\ lastCall'.op = op /\ ncmd' = ncmd + 1)
            => UNCHANGED <<buildingInfo, imagePairs, analysisState,
                           shouldStopAnalysis>>]_vars

\* The identifier run r's gate waits for, the step on which the gate returns,
\* the first decision of a history for an identifier, and a pending list
\* without an identifier's entries.
GateId(r) == NewApprovalId(run[r].gate, r)
GateReturns(r) == run[r].pc = "gate" /\ run'[r].pc = "resumed"
FirstDecision(history, id) ==
    history[CHOOSE i \in DOMAIN history :
               /\ history[i].approvalId = id
               /\ \A j \in 1..(i - 1) : history[j].approvalId # id]
OtherPending(pending, id) ==
    LET Other(p) == p.id # id IN SelectSeq(pending, Other)

\* C27: a gate that returns with a decision for its identifier in
\* approvalHistory returns the approved flag of the first such decision; when
\* that is an approval it removes its pending entry, sets status analyzing and
\* appends one log line naming the approval and its reason.
C27_GateReturnsFirstDecision ==
    [][\A r \in Runs :
          (GateReturns(r) /\ GateId(r) \in HistoryIds(analysisState))
            => LET d == FirstDecision(analysisState.approvalHistory, GateId(r))
               IN /\ run'[r].ret = d.approved
                  /\ d.approved =>
                       analysisState' =
                         [analysisState EXCEPT
                            !.status = "analyzing",
                            !.pendingApprovals = OtherPending(@, GateId(r)),
                            !.analysisLog =
                               Append(@, GateTitle(run[r].gate) \o ": Approved"
                                           \o (IF d.reason = Undefined THEN ""
                                               ELSE " - " \o d.reason[1]))]]_vars
\* A gate has returned true on an approval with a reason that a denial for
\* the same identifier followed.
C27_Witness ==
    \E r \in Runs :
        /\ run[r].pc = "resumed" /\ run[r].ret
        /\ Len(analysisState.approvalHistory) = 2
        /\ analysisState.approvalHistory[1].approvalId = GateId(r)
        /\ analysisState.approvalHistory[2].approvalId = GateId(r)
        /\ analysisState.approvalHistory[1].approved
        /\ analysisState.approvalHistory[1].reason # Undefined
        /\ ~analysisState.approvalHistory[2].approved

\* C28: a gate that returns false leaves status stopped (never idle).
C28_GateNeverIdle ==
    [][\A r \in Runs :
          (GateReturns(r) /\ ~run'[r].ret) => analysisState'.status = "stopped"]_vars

\* C29: a gate that returns with no decision for its identifier in
\* approvalHistory has seen the flag raised; it returns false, removes its
\* pending entry, sets status stopped and changes nothing else.
C29_GateCancelled ==
    [][\A r \in Runs :
          (GateReturns(r) /\ GateId(r) \notin HistoryIds(analysisState))
            => /\ shouldStopAnalysis
               /\ ~run'[r].ret
               /\ analysisState' =
                    [analysisState EXCEPT
                       !.status = "stopped",
                       !.pendingApprovals = OtherPending(@, GateId(r))]]_vars
\* A gate has returned false on the flag, its pending entry removed.
C29_Witness ==
    \E r \in Runs :
        /\ run[r].pc = "resumed" /\ ~run[r].ret
        /\ GateId(r) \notin HistoryIds(analysisState)
        /\ analysisState.status = "stopped"
        /\ analysisState.pendingApprovals = <<>>

\* C30: provideApproval for a pending identifier appends the decision at the
\* end of approvalHistory and changes nothing else.
C30_ProvideAppends ==
    [][(CallStep("provideApproval") /\ lastCall'.arg[1] \in PendingIds(analysisState))
         => /\ lastCall'.outcome = "ok"
            /\ lastCall'.arg[2].approvalId = lastCall'.arg[1]
            /\ analysisState' =
                 [analysisState EXCEPT !.approvalHistory = Append(@, lastCall'.arg[2])]
            /\ UNCHANGED <<buildingInfo, imagePairs, shouldStopAnalysis, run, nruns>>]_vars
\* A second, different decision has been accepted for a pending identifier.
C30_Witness ==
    /\ lastCall.op = "provideApproval" /\ lastCall.outcome = "ok"
    /\ Len(analysisState.approvalHistory) = 2
    /\ analysisState.approvalHistory[2] = lastCall.arg[2]
    /\ analysisState.approvalHistory[1] # lastCall.arg[2]
    /\ analysisState.pendingApprovals # <<>>

\* Run r takes a tool-result part off its stream.
ReadsToolResult(r) ==
    /\ run[r].pc = "streaming"
    /\ run'[r].imagePairAnalyzed = run[r].imagePairAnalyzed + 1
\* A severe anomaly has been recorded since run r last asked for an approval.
NewSevere(r) ==
    \E i \in DOMAIN analysisState.detectedAnomalies :
        i > run[r].escalated /\ IsSevere(analysisState.detectedAnomalies[i])

\* C31: the only run of a session, its anomaly_detection approval approved,
\* asks for a further anomaly_detection approval when it reads a tool result
\* at a checkpoint and a severe anomaly has been recorded since the earlier
\* request.
C31_NewSevereEscalatedAgain ==
    [][\A r \in Runs :
          (/\ nruns = 1 /\ "anomaly_detection" \in run[r].approved
           /\ ReadsToolResult(r)
           /\ AtCheckpoint(run'[r].imagePairAnalyzed, run[r].nPairs)
           /\ NewSevere(r))
            => run'[r].pc = "gate" /\ run'[r].gate = "anomaly_detection"]_vars

\* The step is one of the full resets of analysisState.
FullReset ==
    \/ CallStep("initializeAnalysis")
    \/ CallStep("restartAnalysis")
    \/ CallStep("startAnalysis")
IsPrefix(a, b) == Len(a) <= Len(b) /\ SubSeq(b, 1, Len(a)) = a

\* C32: a step that is no full reset keeps every recorded anomaly in place:
\* detectedAnomalies before the step is a prefix of detectedAnomalies after.
C32_AnomaliesAppendOnly ==
    [][~FullReset => IsPrefix(analysisState.detectedAnomalies,
                              analysisState'.detectedAnomalies)]_vars
\* Two anomalies are recorded and a stop was called in between or after.
C32_Witness ==
    /\ Len(analysisState.detectedAnomalies) = 2
    /\ analysisState.status = "stopped"
    /\ \E r \in Runs : run[r].stopWhileAnalyzing \/ run[r].stopWhileWaiting

\* C33: a step that is no full reset keeps every recorded decision in place:
\* approvalHistory before the step is a prefix of approvalHistory after.
C33_HistoryAppendOnly ==
    [][~FullReset => IsPrefix(analysisState.approvalHistory,
                              analysisState'.approvalHistory)]_vars

\* C34: stopAnalysis called with status completed leaves status completed.
C34_StopKeepsCompleted ==
    [][(CallStep("stopAnalysis") /\ analysisState.status = "completed")
         => analysisState'.status = "completed"]_vars

\* Call c is a generateEnergyReport call one of whose model calls has failed.
ReportFailed(c) ==
    /\ c.tool = "generateEnergyReport"
    /\ c.result = "Error generating report: model failure"

\* C35: the step on which a model call of a generateEnergyReport execution
\* fails changes nothing of analysisState (no report, no rating, the
\* anomalies and the status as they were).
C35_ReportFailureContained ==
    [][\A r \in Runs : \A i \in DOMAIN run[r].calls :
          (/\ i \in DOMAIN run'[r].calls
           /\ run[r].calls[i].result = "running"
           /\ ReportFailed(run'[r].calls[i]))
            => analysisState' = analysisState]_vars
\* Such a failure has happened with anomalies recorded and no report stored.
C35_Witness ==
    \E r \in Runs : \E i \in DOMAIN run[r].calls :
        /\ ReportFailed(run[r].calls[i])
        /\ analysisState.detectedAnomalies # <<>>
        /\ analysisState.finalReport = Undefined
        /\ analysisState.status = "analyzing"

\* C37: finalReport is set exactly when energyRating is set, and a rating
\* that is set is one of A..G.
C37_ReportAndRatingTogether ==
    /\ (analysisState.finalReport # Undefined) <=> (analysisState.energyRating # Undefined)
    /\ analysisState.energyRating # Undefined
         => \E g \in Ratings : analysisState.energyRating = Some(g)
\* A report is stored with the fallback rating.
C37_Witness ==
    /\ analysisState.finalReport # Undefined
    /\ analysisState.energyRating = Some("D")

\* analysisState is as restartAnalysis leaves it.
JustRestarted ==
    /\ analysisState.status = "idle"
    /\ analysisState.analysisLog = <<"Analysis restarted - ready to begin">>
    /\ analysisState.detectedAnomalies = <<>>
    /\ analysisState.pendingApprovals = <<>>
\* Run r was asked to stop while it streamed or waited.
AskedToStop(r) == run[r].stopWhileAnalyzing \/ run[r].stopWhileWaiting

\* C38: while analysisState is as restartAnalysis left it, a step that is no
\* command leaves status idle and the anomalies and pending approvals empty.
C38_RestartedStateStays ==
    [][(JustRestarted /\ lastCall'.op = "none")
         => /\ analysisState'.status = "idle"
            /\ analysisState'.detectedAnomalies = <<>>
            /\ analysisState'.pendingApprovals = <<>>]_vars

\* C39: while a run that was asked to stop is still executing, the
\* cancellation flag stays raised.
C39_StopRequestKept ==
    [][\A r \in Runs :
          (/\ shouldStopAnalysis /\ AskedToStop(r)
           /\ Active(r) /\ run'[r].pc # "done")
            => shouldStopAnalysis']_vars

\* C40: status is awaiting_approval exactly when pendingApprovals is
\* non-empty.
C40_AwaitingIffPending ==
    (analysisState.status = "awaiting_approval")
        <=> (analysisState.pendingApprovals # <<>>)

\* C36: every anomaly in detectedAnomalies has coordinates of exactly four
\* numbers.
C36_FourCoordinates ==
    \A i \in DOMAIN analysisState.detectedAnomalies :
        LET c == analysisState.detectedAnomalies[i].coordinates
        IN Len(c) = 4 /\ \A k \in DOMAIN c : ~c[k].nan
====
